---- MODULE Spec2Model ----
(***************************************************************************)
(* Model of smoldot's chain information (lib/src/chain/chain_information.rs)*)
(* : the owned and borrowed representations, ChainInformationRef::validate, *)
(* and the validated wrappers built on it.                                  *)
(*                                                                          *)
(* Option<T> is modelled as a sequence of length 0 (None) or 1 (Some(x)).   *)
(* Result<(), ValidityError> is modelled as the string "Ok" or the name of  *)
(* the error variant.                                                       *)
(***************************************************************************)
EXTENDS Integers, Sequences, FiniteSets, TLC

\* ------------------------------------------------------------------------
\* Bounds of the model
\* ------------------------------------------------------------------------

\* Highest finalized block number; scheduled changes trigger at 0..MaxNumber+1.
MaxNumber == 1

\* Highest Babe slot number (header pre-runtime slot, epoch start slot).
MaxSlot == 1

\* Messages the JSON-RPC service sends to the requests handler.
MaxMessages == 2

\* Headers the consensus service reports, over all subscriptions.
MaxHeaders == 2

\* ------------------------------------------------------------------------
\* Option helpers
\* ------------------------------------------------------------------------

None == <<>>

Some(x) == <<x>>

is_some(o) == Len(o) = 1

is_none(o) == Len(o) = 0

unwrap(o) == o[1]

OptionOf(S) == {None} \cup {Some(x) : x \in S}

\* ------------------------------------------------------------------------
\* Value domains the inputs are drawn from
\* ------------------------------------------------------------------------

BlockNumbers == 0..MaxNumber

TriggerHeights == 0..(MaxNumber + 1)

Slots == 0..MaxSlot

\* Start slot of an epoch that follows the current one: past every slot above.
NextEpochStartSlots == {MaxSlot + 1}

\* epoch_index: 0 (the future epoch #0) and a later epoch
EpochIndices == {0, 1}

\* after_finalized_block_authorities_set_id
SetIds == {0, 1}

\* The constant c as (numerator, denominator): below, equal to and above 1.
CValues == {<<1, 2>>, <<1, 1>>, <<2, 1>>}

\* Authority lists (ordered) and randomness values, as opaque payload.
AuthorityLists == {<<"alice">>, <<"alice", "bob">>}

Randomness == {"r0", "r1"}

\* ------------------------------------------------------------------------
\* Error taxonomy
\* ------------------------------------------------------------------------

Ok == "Ok"

InvalidConstant == "InvalidConstant"

InvalidBabe(err) == "InvalidBabe(" \o err \o ")"

ValidityError ==
    { "ConsensusAlgorithmMismatch",
      "UnexpectedBabeSlotStartNumber",
      "MissingBabeSlotStartNumber",
      "UnexpectedBabeFinalizedEpoch",
      "NoBabeFinalizedEpoch",
      "HeaderBabeSlotInferiorToEpochStartSlot",
      "BabeEpochInfoMismatch",
      "ScheduledGrandPaChangeBeforeFinalized",
      "FinalizedZeroButNonZeroAuthoritiesSetId",
      InvalidBabe(InvalidConstant) }

\* ------------------------------------------------------------------------
\* Header and digest (crate::header). Only the queries validate makes are
\* modelled: a digest is the summary of its log items.
\* ------------------------------------------------------------------------

\* header::BabeAuthoritiesIter / AuraAuthoritiesIter: an iterator over a slice,
\* holding the items it has not yielded yet.
from_slice(list) == [remaining |-> list]

\* Iterator::next
iter_is_empty(it) == Len(it.remaining) = 0

iter_item(it) == Head(it.remaining)

iter_advance(it) == [remaining |-> Tail(it.remaining)]

\* collect pushing each item to the front: the Vec comes out in reverse order.
RECURSIVE collect_reversed(_)
collect_reversed(it) ==
    IF iter_is_empty(it) THEN <<>>
    ELSE collect_reversed(iter_advance(it)) \o <<iter_item(it)>>

\* .map(Into::into).collect(): drains the iterator into a Vec, in order.
RECURSIVE collect(_)
collect(it) ==
    IF iter_is_empty(it) THEN <<>>
    ELSE <<iter_item(it)>> \o collect(iter_advance(it))

\* From<&Header> for HeaderRef: the digest's embedded Babe epoch-change
\* announcement is seen through an authorities iterator.
HeaderToRef(h) ==
    [ number |-> h.number,
      digest |->
        [ aura_pre_runtime |-> h.digest.aura_pre_runtime,
          aura_seal |-> h.digest.aura_seal,
          babe_pre_runtime |-> h.digest.babe_pre_runtime,
          babe_seal |-> h.digest.babe_seal,
          babe_epoch_information |->
            IF is_some(h.digest.babe_epoch_information)
            THEN Some([ authorities |->
                          from_slice(unwrap(h.digest.babe_epoch_information).authorities),
                        randomness |->
                          unwrap(h.digest.babe_epoch_information).randomness ])
            ELSE None ] ]

\* From<HeaderRef> for Header
HeaderToOwned(h) ==
    [ number |-> h.number,
      digest |->
        [ aura_pre_runtime |-> h.digest.aura_pre_runtime,
          aura_seal |-> h.digest.aura_seal,
          babe_pre_runtime |-> h.digest.babe_pre_runtime,
          babe_seal |-> h.digest.babe_seal,
          babe_epoch_information |->
            IF is_some(h.digest.babe_epoch_information)
            THEN Some([ authorities |->
                          collect(unwrap(h.digest.babe_epoch_information).authorities),
                        randomness |->
                          unwrap(h.digest.babe_epoch_information).randomness ])
            ELSE None ] ]

\* DigestRef::aura_pre_runtime: the Aura pre-runtime item, if any.
aura_pre_runtime(digest) == digest.aura_pre_runtime

\* DigestRef::aura_seal
aura_seal(digest) == digest.aura_seal

\* DigestRef::babe_pre_runtime: the Babe pre-runtime item, if any.
babe_pre_runtime(digest) == digest.babe_pre_runtime

\* BabePreDigestRef::slot_number
slot_number(babe_preruntime) == babe_preruntime.slot_number

\* DigestRef::babe_seal
babe_seal(digest) == digest.babe_seal

\* DigestRef::babe_epoch_information: (epoch change, optional new config).
\* The new config is not read by this module and is left out.
babe_epoch_information(digest) ==
    IF is_some(digest.babe_epoch_information)
    THEN Some(<<unwrap(digest.babe_epoch_information), None>>)
    ELSE None

\* DigestRef::has_any_aura: some log item belongs to Aura.
has_any_aura(digest) ==
    is_some(digest.aura_pre_runtime) \/ is_some(digest.aura_seal)

\* DigestRef::has_any_babe: some log item belongs to Babe.
has_any_babe(digest) ==
    \/ is_some(digest.babe_pre_runtime)
    \/ is_some(digest.babe_seal)
    \/ is_some(digest.babe_epoch_information)

\* ------------------------------------------------------------------------
\* Owned <-> borrowed conversions
\* ------------------------------------------------------------------------

\* From<&BabeEpochInformation> for BabeEpochInformationRef
BabeEpochInformationToRef(info) ==
    [ epoch_index |-> info.epoch_index,
      start_slot_number |-> info.start_slot_number,
      authorities |-> from_slice(info.authorities),
      randomness |-> info.randomness,
      c |-> info.c,
      allowed_slots |-> info.allowed_slots ]

\* From<BabeEpochInformationRef> for BabeEpochInformation
BabeEpochInformationToOwned(info) ==
    [ epoch_index |-> info.epoch_index,
      start_slot_number |-> info.start_slot_number,
      authorities |-> collect(info.authorities),
      randomness |-> info.randomness,
      c |-> info.c,
      allowed_slots |-> info.allowed_slots ]

\* From<&ChainInformationFinality> for ChainInformationFinalityRef
FinalityToRef(finality) ==
    IF finality.kind = "Outsourced" THEN [kind |-> "Outsourced"]
    ELSE [ kind |-> "Grandpa",
           after_finalized_block_authorities_set_id |->
               finality.after_finalized_block_authorities_set_id,
           finalized_triggered_authorities |->
               finality.finalized_triggered_authorities,
           finalized_scheduled_change |->
               IF is_some(finality.finalized_scheduled_change)
               THEN Some(<<unwrap(finality.finalized_scheduled_change)[1],
                           unwrap(finality.finalized_scheduled_change)[2]>>)
               ELSE None ]

\* FinalityToOwned losing the scheduled change.
FinalityToOwned_without_change(finality) ==
    IF finality.kind = "Outsourced" THEN [kind |-> "Outsourced"]
    ELSE [ kind |-> "Grandpa",
           after_finalized_block_authorities_set_id |->
               finality.after_finalized_block_authorities_set_id,
           finalized_scheduled_change |-> None,
           finalized_triggered_authorities |->
               finality.finalized_triggered_authorities ]

\* From<ChainInformationFinalityRef> for ChainInformationFinality
FinalityToOwned(finality) ==
    IF finality.kind = "Outsourced" THEN [kind |-> "Outsourced"]
    ELSE [ kind |-> "Grandpa",
           after_finalized_block_authorities_set_id |->
               finality.after_finalized_block_authorities_set_id,
           finalized_scheduled_change |->
               IF is_some(finality.finalized_scheduled_change)
               THEN Some(<<unwrap(finality.finalized_scheduled_change)[1],
                           unwrap(finality.finalized_scheduled_change)[2]>>)
               ELSE None,
           finalized_triggered_authorities |->
               finality.finalized_triggered_authorities ]

\* From<&ChainInformation> for ChainInformationRef
ChainInformationToRef(info) ==
    [ finalized_block_header |-> HeaderToRef(info.finalized_block_header),
      consensus |->
        CASE info.consensus.kind = "Unknown" -> [kind |-> "Unknown"]
          [] info.consensus.kind = "Aura" ->
               [ kind |-> "Aura",
                 finalized_authorities_list |->
                     from_slice(info.consensus.finalized_authorities_list),
                 slot_duration |-> info.consensus.slot_duration ]
          [] info.consensus.kind = "Babe" ->
               [ kind |-> "Babe",
                 slots_per_epoch |-> info.consensus.slots_per_epoch,
                 finalized_block_epoch_information |->
                     IF is_some(info.consensus.finalized_block_epoch_information)
                     THEN Some(BabeEpochInformationToRef(
                              unwrap(info.consensus.finalized_block_epoch_information)))
                     ELSE None,
                 finalized_next_epoch_transition |->
                     BabeEpochInformationToRef(
                         info.consensus.finalized_next_epoch_transition) ],
      finality |-> FinalityToRef(info.finality) ]

\* From<ChainInformationRef> for ChainInformation
ChainInformationToOwned(info) ==
    [ finalized_block_header |-> HeaderToOwned(info.finalized_block_header),
      consensus |->
        CASE info.consensus.kind = "Unknown" -> [kind |-> "Unknown"]
          [] info.consensus.kind = "Aura" ->
               [ kind |-> "Aura",
                 finalized_authorities_list |->
                     collect(info.consensus.finalized_authorities_list),
                 slot_duration |-> info.consensus.slot_duration ]
          [] info.consensus.kind = "Babe" ->
               [ kind |-> "Babe",
                 slots_per_epoch |-> info.consensus.slots_per_epoch,
                 finalized_block_epoch_information |->
                     IF is_some(info.consensus.finalized_block_epoch_information)
                     THEN Some(BabeEpochInformationToOwned(
                              unwrap(info.consensus.finalized_block_epoch_information)))
                     ELSE None,
                 finalized_next_epoch_transition |->
                     BabeEpochInformationToOwned(
                         info.consensus.finalized_next_epoch_transition) ],
      finality |-> FinalityToOwned(info.finality) ]

\* ------------------------------------------------------------------------
\* Validation
\* ------------------------------------------------------------------------

\* Mutant of BabeEpochInformationRef::validate: `>=` in place of `>`, so a
\* constant equal to 1 is rejected.
BabeEpochInformationRef_validate_strict(self) ==
    IF self.c[1] >= self.c[2] THEN InvalidConstant ELSE Ok

\* BabeEpochInformationRef::validate
BabeEpochInformationRef_validate(self) ==
    IF self.c[1] > self.c[2] THEN InvalidConstant ELSE Ok

\* BabeEpochInformation::validate
BabeEpochInformation_validate(self) ==
    BabeEpochInformationRef_validate(BabeEpochInformationToRef(self))

\* Mutant of the next-epoch start-slot checks: the `is_some() && epoch_index == 0`
\* check is missing.
check_next_epoch_start_slot_missing_only(finalized_next_epoch_transition) ==
    IF /\ is_none(finalized_next_epoch_transition.start_slot_number)
       /\ finalized_next_epoch_transition.epoch_index # 0
    THEN "MissingBabeSlotStartNumber"
    ELSE Ok

\* ChainInformationRef::validate, the two start-slot checks on the next epoch:
\* `start_slot_number.is_some() && epoch_index == 0` and
\* `start_slot_number.is_none() && epoch_index != 0`.
check_next_epoch_start_slot(finalized_next_epoch_transition) ==
    IF /\ is_some(finalized_next_epoch_transition.start_slot_number)
       /\ finalized_next_epoch_transition.epoch_index = 0
    THEN "UnexpectedBabeSlotStartNumber"
    ELSE IF /\ is_none(finalized_next_epoch_transition.start_slot_number)
            /\ finalized_next_epoch_transition.epoch_index # 0
         THEN "MissingBabeSlotStartNumber"
    ELSE Ok

\* Mutant of the genesis check under a present current epoch: the check is
\* missing.
check_finalized_epoch_on_genesis_skipped(header) == Ok

\* ChainInformationRef::validate, `if self.finalized_block_header.number == 0`
\* under a present current-epoch information.
check_finalized_epoch_on_genesis(header) ==
    IF header.number = 0 THEN "UnexpectedBabeFinalizedEpoch" ELSE Ok

\* Mutant of the header pre-runtime check: `<=` in place of `<`, so a header
\* slot equal to the epoch start is rejected.
check_header_babe_pre_runtime_strict(header, epoch_start_slot_number) ==
    LET pre == babe_pre_runtime(header.digest) IN
    IF is_some(pre)
    THEN IF header.number = 0 THEN "ConsensusAlgorithmMismatch"
         ELSE IF slot_number(unwrap(pre)) <= epoch_start_slot_number
              THEN "HeaderBabeSlotInferiorToEpochStartSlot"
         ELSE Ok
    ELSE IF header.number # 0 THEN "ConsensusAlgorithmMismatch"
    ELSE Ok

\* check_finalized_epoch_start_slot returning the error of the next epoch's
\* start-slot rule (line 360) in place of the one of line 408.
check_finalized_epoch_start_slot_unexpected(finalized_block_epoch_information) ==
    IF is_none(finalized_block_epoch_information.start_slot_number)
    THEN "UnexpectedBabeSlotStartNumber"
    ELSE Ok

\* ChainInformationRef::validate, `if let Some(epoch_start_slot_number) =
\* finalized_block_epoch_information.start_slot_number { .. } else { return
\* Err(MissingBabeSlotStartNumber) }`: the current epoch must have a start slot.
check_finalized_epoch_start_slot(finalized_block_epoch_information) ==
    IF is_none(finalized_block_epoch_information.start_slot_number)
    THEN "MissingBabeSlotStartNumber"
    ELSE Ok

\* ChainInformationRef::validate, the `if let Some(babe_preruntime) = .. else if ..`
\* block: the header's Babe pre-runtime item against the block number and the
\* start slot of the epoch.
check_header_babe_pre_runtime(header, epoch_start_slot_number) ==
    LET pre == babe_pre_runtime(header.digest) IN
    IF is_some(pre)
    THEN IF header.number = 0 THEN "ConsensusAlgorithmMismatch"
         ELSE IF slot_number(unwrap(pre)) < epoch_start_slot_number
              THEN "HeaderBabeSlotInferiorToEpochStartSlot"
         ELSE Ok
    ELSE IF header.number # 0 THEN "ConsensusAlgorithmMismatch"
    ELSE Ok

\* ChainInformationRef::validate, the Babe seal / no Aura item check.
check_header_babe_seal(header) ==
    IF \/ is_some(babe_seal(header.digest)) # (header.number # 0)
       \/ has_any_aura(header.digest)
    THEN "ConsensusAlgorithmMismatch"
    ELSE Ok

\* ChainInformationRef::validate, the epoch-change announcement of the header
\* against the next epoch.
check_babe_epoch_change(header, finalized_next_epoch_transition) ==
    LET announcement == babe_epoch_information(header.digest) IN
    IF /\ is_some(announcement)
       /\ \/ unwrap(announcement)[1].authorities
                 # finalized_next_epoch_transition.authorities
          \/ unwrap(announcement)[1].randomness
                 # finalized_next_epoch_transition.randomness
    THEN "BabeEpochInfoMismatch"
    ELSE Ok

\* ChainInformationRef::validate, the body of
\* `if let Some(..) = &finalized_block_epoch_information`: the error of its first
\* `return Err`, or Ok when the body falls through.
validate_finalized_block_epoch(self, finalized_block_epoch_information, finalized_next_epoch_transition) ==
    LET header == self.finalized_block_header
        epoch_validity ==
            BabeEpochInformationRef_validate(finalized_block_epoch_information)
        epoch_start_slot_number ==
            unwrap(finalized_block_epoch_information.start_slot_number)
    IN
    IF epoch_validity # Ok THEN InvalidBabe(epoch_validity)
    ELSE IF check_finalized_epoch_on_genesis(header) # Ok
         THEN check_finalized_epoch_on_genesis(header)
    ELSE IF check_finalized_epoch_start_slot(finalized_block_epoch_information) # Ok
         THEN check_finalized_epoch_start_slot(finalized_block_epoch_information)
    ELSE IF check_header_babe_pre_runtime(header, epoch_start_slot_number) # Ok
         THEN check_header_babe_pre_runtime(header, epoch_start_slot_number)
    ELSE IF check_header_babe_seal(header) # Ok
         THEN check_header_babe_seal(header)
    ELSE check_babe_epoch_change(header, finalized_next_epoch_transition)

\* check_missing_finalized_epoch without `&& number != 0`: genesis needs a
\* current epoch too.
check_missing_finalized_epoch_any_block(header, finalized_block_epoch_information) ==
    IF is_none(finalized_block_epoch_information)
    THEN "NoBabeFinalizedEpoch"
    ELSE Ok

\* ChainInformationRef::validate, `finalized_block_epoch_information.is_none()
\* && self.finalized_block_header.number != 0`.
check_missing_finalized_epoch(header, finalized_block_epoch_information) ==
    IF is_none(finalized_block_epoch_information) /\ header.number # 0
    THEN "NoBabeFinalizedEpoch"
    ELSE Ok

\* ChainInformationRef::validate, the `if let Babe { .. } = &self.consensus` block.
validate_babe(self) ==
    LET finalized_next_epoch_transition ==
            self.consensus.finalized_next_epoch_transition
        finalized_block_epoch_information ==
            self.consensus.finalized_block_epoch_information
        next_validity ==
            BabeEpochInformationRef_validate(finalized_next_epoch_transition)
        current ==
            IF is_some(finalized_block_epoch_information)
            THEN validate_finalized_block_epoch(
                     self, unwrap(finalized_block_epoch_information),
                     finalized_next_epoch_transition)
            ELSE Ok
    IN
    IF next_validity # Ok THEN InvalidBabe(next_validity)
    ELSE IF check_next_epoch_start_slot(finalized_next_epoch_transition) # Ok
         THEN check_next_epoch_start_slot(finalized_next_epoch_transition)
    ELSE IF current # Ok THEN current
    ELSE check_missing_finalized_epoch(self.finalized_block_header,
                                       finalized_block_epoch_information)

\* Mutant of the Aura block: the seal condition is missing.
validate_aura_without_seal(self) ==
    LET header == self.finalized_block_header IN
    IF \/ is_some(aura_pre_runtime(header.digest)) # (header.number # 0)
       \/ has_any_babe(header.digest)
    THEN "ConsensusAlgorithmMismatch"
    ELSE Ok

\* ChainInformationRef::validate, the `if let Aura { .. } = &self.consensus` block.
validate_aura(self) ==
    LET header == self.finalized_block_header IN
    IF \/ is_some(aura_pre_runtime(header.digest)) # (header.number # 0)
       \/ is_some(aura_seal(header.digest)) # (header.number # 0)
       \/ has_any_babe(header.digest)
    THEN "ConsensusAlgorithmMismatch"
    ELSE Ok

\* Mutant of the scheduled-change check: `<` in place of `<=`, so a change at
\* the finalized height passes.
check_scheduled_change_strict(header, finalized_scheduled_change) ==
    IF /\ is_some(finalized_scheduled_change)
       /\ unwrap(finalized_scheduled_change)[1] < header.number
    THEN "ScheduledGrandPaChangeBeforeFinalized"
    ELSE Ok

\* ChainInformationRef::validate, `change.0 <= self.finalized_block_header.number`.
check_scheduled_change(header, finalized_scheduled_change) ==
    IF /\ is_some(finalized_scheduled_change)
       /\ unwrap(finalized_scheduled_change)[1] <= header.number
    THEN "ScheduledGrandPaChangeBeforeFinalized"
    ELSE Ok

\* Mutant of the genesis set-id check: the `number == 0` condition is missing.
check_genesis_authorities_set_id_any_block(header, after_finalized_block_authorities_set_id) ==
    IF after_finalized_block_authorities_set_id # 0
    THEN "FinalizedZeroButNonZeroAuthoritiesSetId"
    ELSE Ok

\* ChainInformationRef::validate, `number == 0 &&
\* *after_finalized_block_authorities_set_id != 0`.
check_genesis_authorities_set_id(header, after_finalized_block_authorities_set_id) ==
    IF header.number = 0 /\ after_finalized_block_authorities_set_id # 0
    THEN "FinalizedZeroButNonZeroAuthoritiesSetId"
    ELSE Ok

\* ChainInformationRef::validate, the `if let Grandpa { .. } = &self.finality` block.
validate_grandpa(self) ==
    LET header == self.finalized_block_header
        scheduled == check_scheduled_change(
                         header, self.finality.finalized_scheduled_change)
    IN
    IF scheduled # Ok THEN scheduled
    ELSE check_genesis_authorities_set_id(
             header, self.finality.after_finalized_block_authorities_set_id)

\* validate_consensus applying the Aura header rule to every chain that is not
\* Babe.
validate_consensus_unknown_as_aura(self) ==
    CASE self.consensus.kind = "Babe" -> validate_babe(self)
      [] OTHER -> validate_aura(self)

\* The consensus-engine part of ChainInformationRef::validate.
validate_consensus(self) ==
    CASE self.consensus.kind = "Babe" -> validate_babe(self)
      [] self.consensus.kind = "Aura" -> validate_aura(self)
      [] OTHER -> Ok

\* The finality part of ChainInformationRef::validate.
validate_finality(self) ==
    IF self.finality.kind = "Grandpa" THEN validate_grandpa(self) ELSE Ok

\* validate with the Grandpa checks placed before the consensus checks.
validate_finality_first(self) ==
    LET finality == validate_finality(self) IN
    IF finality # Ok THEN finality
    ELSE validate_consensus(self)

\* ChainInformationRef::validate
validate(self) ==
    LET consensus == validate_consensus(self) IN
    IF consensus # Ok THEN consensus
    ELSE validate_finality(self)

\* ------------------------------------------------------------------------
\* Inputs
\* ------------------------------------------------------------------------

\* The epoch-change announcements a header digest can embed: one that equals
\* the next epoch of every input below, one whose authorities differ (same
\* members, other order) and one whose randomness differs.
Announcements ==
    { [authorities |-> <<"alice", "bob">>, randomness |-> "r0"],
      [authorities |-> <<"bob", "alice">>, randomness |-> "r0"],
      [authorities |-> <<"alice", "bob">>, randomness |-> "r1"] }

Digests ==
    [ aura_pre_runtime : OptionOf({"AuraPreDigest"}),
      aura_seal : OptionOf({"AuraSeal"}),
      babe_pre_runtime : OptionOf([slot_number : Slots]),
      babe_seal : OptionOf({"BabeSeal"}),
      babe_epoch_information : OptionOf(Announcements) ]

Headers == [number : BlockNumbers, digest : Digests]

BabeEpochInformations(start_slots, authorities, randomness) ==
    [ epoch_index : EpochIndices,
      start_slot_number : OptionOf(start_slots),
      authorities : authorities,
      randomness : randomness,
      c : CValues,
      allowed_slots : {"PrimaryAndSecondaryPlainSlots"} ]

Consensuses ==
    {[kind |-> "Unknown"]}
    \cup [ kind : {"Aura"},
           finalized_authorities_list : {<<"alice", "bob">>},
           slot_duration : {6000} ]
    \cup [ kind : {"Babe"},
           slots_per_epoch : {600},
           finalized_block_epoch_information :
               OptionOf(BabeEpochInformations(Slots, {<<"bob">>}, {"r1"})),
           finalized_next_epoch_transition :
               BabeEpochInformations(NextEpochStartSlots, {<<"alice", "bob">>}, {"r0"}) ]

Finalities ==
    {[kind |-> "Outsourced"]}
    \cup [ kind : {"Grandpa"},
           after_finalized_block_authorities_set_id : SetIds,
           finalized_triggered_authorities : {<<"alice", "bob">>},
           finalized_scheduled_change :
               OptionOf(TriggerHeights \X {<<"bob">>}) ]

ChainInformations ==
    [ finalized_block_header : Headers,
      consensus : Consensuses,
      finality : Finalities ]

\* ------------------------------------------------------------------------
\* State
\* ------------------------------------------------------------------------

\* The chain information a caller that only checks an epoch holds: genesis of
\* a chain with no consensus and no finality engine, empty digest.
DefaultChainInformation ==
    [ finalized_block_header |->
        [ number |-> 0,
          digest |-> [ aura_pre_runtime |-> None, aura_seal |-> None,
                       babe_pre_runtime |-> None, babe_seal |-> None,
                       babe_epoch_information |-> None ] ],
      consensus |-> [kind |-> "Unknown"],
      finality |-> [kind |-> "Outsourced"] ]

VARIABLES
    info,          \* the ChainInformation the caller holds
    epoch,         \* None, or Some(BabeEpochInformation) the caller checks alone
    result,        \* None, or Some(outcome) of validate / try_from on info
    epoch_result,  \* None, or Some(outcome) of BabeEpochInformation::validate
    valids,        \* the ValidChainInformation values that exist
    valid_refs,    \* the ValidChainInformationRef values that exist
    view,          \* None, or Some(ChainInformationRef) returned by as_ref
    plain,         \* None, or Some(ChainInformation) returned by Into
    round_trip     \* None, or Some(ChainInformation) converted to a view and back

\* The requests handler of the full node (requests_handler.rs).
VARIABLES
    channel,        \* Messages sent to config.receiver and not yet taken, in order
    closed,         \* TRUE once the sending side of the channel is closed
    main_task,      \* where the handler's main task stands: pc and, while it
                    \* awaits the database, the request it holds
    taken,          \* the Messages config.receiver.next() has returned, in order
    replies,        \* what the main task answered the messages with, in order
    subscriptions   \* the tasks spawned for chain_subscribeAllHeads, in order

chain_vars == <<info, epoch, result, epoch_result, valids, valid_refs, view, plain, round_trip>>

handler_vars == <<channel, closed, main_task, taken, replies, subscriptions>>

vars == <<chain_vars, handler_vars>>

\* spawn_requests_handler has just been called: nothing sent, nothing taken,
\* the main task is at the top of its loop.
InitRequestsHandler ==
    /\ channel = <<>>
    /\ closed = FALSE
    /\ main_task = [pc |-> "receive", request |-> None]
    /\ taken = <<>>
    /\ replies = <<>>
    /\ subscriptions = <<>>

\* The caller holds either a chain information, which it validates once and
\* then uses through the wrappers or which it converts to a view and back, or a
\* lone Babe epoch information.
Init ==
    /\ \/ /\ info \in ChainInformations
          /\ epoch = None
       \/ /\ info = DefaultChainInformation
          /\ epoch \in { Some(e) :
                         e \in BabeEpochInformations(Slots, AuthorityLists, Randomness) }
    /\ result = None
    /\ epoch_result = None
    /\ valids = {}
    /\ valid_refs = {}
    /\ view = None
    /\ plain = None
    /\ round_trip = None
    /\ InitRequestsHandler

\* ChainInformationRef::from(&info).validate()
Validate ==
    /\ epoch = None
    /\ result = None
    /\ round_trip = None
    /\ result' = Some(validate(ChainInformationToRef(info)))
    /\ UNCHANGED <<info, epoch, epoch_result, valids, valid_refs, view, plain, round_trip>>
    /\ UNCHANGED handler_vars

\* BabeEpochInformation::validate
ValidateEpoch ==
    /\ is_some(epoch)
    /\ epoch_result = None
    /\ epoch_result' = Some(BabeEpochInformation_validate(unwrap(epoch)))
    /\ UNCHANGED <<info, epoch, result, valids, valid_refs, view, plain, round_trip>>
    /\ UNCHANGED handler_vars

\* Mutant of TryFrom<ChainInformation>: the `?` on validate's result is
\* missing, so every input is wrapped.
try_from_owned_unchecked(i, outcome) == {[inner |-> i]}

\* The value TryFrom<ChainInformation> for ValidChainInformation wraps when
\* validate returned `outcome` on the view of `i`.
try_from_owned(i, outcome) ==
    IF outcome = Ok THEN {[inner |-> i]} ELSE {}

\* TryFrom<ChainInformation> for ValidChainInformation
TryFromChainInformation ==
    LET outcome == validate(ChainInformationToRef(info)) IN
    /\ epoch = None
    /\ result = None
    /\ round_trip = None
    /\ result' = Some(outcome)
    /\ valids' = valids \cup try_from_owned(info, outcome)
    /\ UNCHANGED <<info, epoch, epoch_result, valid_refs, view, plain, round_trip>>
    /\ UNCHANGED handler_vars

\* The value TryFrom<ChainInformationRef> for ValidChainInformationRef wraps
\* when validate returned `outcome` on `i`.
try_from_ref(i, outcome) ==
    IF outcome = Ok THEN {[inner |-> i]} ELSE {}

\* TryFrom<ChainInformationRef> for ValidChainInformationRef
TryFromChainInformationRef ==
    LET borrowed == ChainInformationToRef(info)
        outcome == validate(borrowed)
    IN
    /\ epoch = None
    /\ result = None
    /\ round_trip = None
    /\ result' = Some(outcome)
    /\ valid_refs' = valid_refs \cup try_from_ref(borrowed, outcome)
    /\ UNCHANGED <<info, epoch, epoch_result, valids, view, plain, round_trip>>
    /\ UNCHANGED handler_vars

\* From<&ValidChainInformation> for ValidChainInformationRef
ValidRefFromValid ==
    /\ \E v \in valids :
          valid_refs' = valid_refs \cup {[inner |-> ChainInformationToRef(v.inner)]}
    /\ UNCHANGED <<info, epoch, result, epoch_result, valids, view, plain, round_trip>>
    /\ UNCHANGED handler_vars

\* From<ValidChainInformationRef> for ValidChainInformation
ValidFromValidRef ==
    /\ \E r \in valid_refs :
          valids' = valids \cup {[inner |-> ChainInformationToOwned(r.inner)]}
    /\ UNCHANGED <<info, epoch, result, epoch_result, valid_refs, view, plain, round_trip>>
    /\ UNCHANGED handler_vars

\* ValidChainInformation::as_ref
ValidAsRef ==
    /\ \E v \in valids : view' = Some(ChainInformationToRef(v.inner))
    /\ UNCHANGED <<info, epoch, result, epoch_result, valids, valid_refs, plain, round_trip>>
    /\ UNCHANGED handler_vars

\* ValidChainInformationRef::as_ref
ValidRefAsRef ==
    /\ \E r \in valid_refs : view' = Some(r.inner)
    /\ UNCHANGED <<info, epoch, result, epoch_result, valids, valid_refs, plain, round_trip>>
    /\ UNCHANGED handler_vars

\* #[derive(Clone)] on both wrappers: the copy is one more wrapper of the
\* same content.
Clone ==
    /\ valids # {} \/ valid_refs # {}
    /\ valids' = valids \cup {[inner |-> v.inner] : v \in valids}
    /\ valid_refs' = valid_refs \cup {[inner |-> r.inner] : r \in valid_refs}
    /\ UNCHANGED <<info, epoch, result, epoch_result, view, plain, round_trip>>
    /\ UNCHANGED handler_vars

\* From<ValidChainInformation> for ChainInformation: consumes the wrapper.
IntoChainInformation ==
    /\ \E v \in valids :
          /\ plain' = Some(v.inner)
          /\ valids' = valids \ {v}
    /\ UNCHANGED <<info, epoch, result, epoch_result, valid_refs, view, round_trip>>
    /\ UNCHANGED handler_vars

\* ChainInformation::from(ChainInformationRef::from(&info)): the caller
\* converts its chain information to a view and the view back, in place of
\* validating it.
RoundTrip ==
    /\ epoch = None
    /\ result = None
    /\ round_trip = None
    /\ round_trip' = Some(ChainInformationToOwned(ChainInformationToRef(info)))
    /\ UNCHANGED <<info, epoch, result, epoch_result, valids, valid_refs, view, plain>>
    /\ UNCHANGED handler_vars

Next ==
    \/ Validate
    \/ ValidateEpoch
    \/ TryFromChainInformation
    \/ TryFromChainInformationRef
    \/ ValidRefFromValid
    \/ ValidFromValidRef
    \/ ValidAsRef
    \/ ValidRefAsRef
    \/ Clone
    \/ IntoChainInformation
    \/ RoundTrip

Spec == Init /\ [][Next]_vars

\* ------------------------------------------------------------------------
\* The requests handler of the full node's JSON-RPC service
\* ------------------------------------------------------------------------

\* The MethodCall variants a Message::Request can carry: the ten with an arm
\* of their own in spawn_requests_handler (chain_getBlockHash with and without
\* height) and one that falls to the `_` arm.
RequestCalls ==
    { [name |-> n] :
        n \in { "rpc_methods", "chainSpec_v1_chainName", "chainSpec_v1_genesisHash",
                "chainSpec_v1_properties", "system_chain", "system_localPeerId",
                "system_name", "system_properties", "system_version",
                "chain_getHeader" } }
    \cup { [name |-> "chain_getBlockHash", height |-> h] : h \in {None, Some(1)} }

\* The MethodCall variants a Message::SubscriptionStart can carry: the one with
\* an arm of its own and one that falls to the `_` arm.
SubscriptionCalls ==
    { [name |-> n] : n \in {"chain_subscribeAllHeads", "chain_subscribeNewHeads"} }

\* enum Message, each process carrying the id of the client's request.
Messages(id) ==
    { [kind |-> "Request", id |-> id, request |-> c] : c \in RequestCalls }
    \cup { [kind |-> "SubscriptionStart", id |-> id, request |-> c] :
             c \in SubscriptionCalls }

\* RequestProcess::respond
respond(request, response) ==
    [id |-> request.id, kind |-> "respond", payload |-> response]

\* RequestProcess::respond_null
respond_null(request) ==
    [id |-> request.id, kind |-> "respond_null", payload |-> "null"]

\* RequestProcess::fail / SubscriptionStartProcess::fail
fail(request, error) ==
    [id |-> request.id, kind |-> "fail", payload |-> error]

\* Subscription::subscription_id of the subscription that
\* SubscriptionStartProcess::accept returns: one id per accepted request.
subscription_id(request) == request.id

\* parse::ErrorResponse::InternalError
InternalError == [variant |-> "InternalError"]

\* service::ErrorResponse::ServerError(-32000, "Not implemented in smoldot yet")
ServerErrorNotImplemented ==
    [ variant |-> "ServerError", code |-> -32000,
      message |-> "Not implemented in smoldot yet" ]

\* handle_request with parse::ErrorResponse::InternalError in the `_` arm.
handle_request_fallback_internal_error(request) ==
    LET name == request.request.name IN
    CASE name = "rpc_methods" -> respond(request, "rpc_methods")
      [] name = "chainSpec_v1_chainName" -> respond(request, "chainSpec_v1_chainName")
      [] name = "chainSpec_v1_genesisHash" -> respond(request, "chainSpec_v1_genesisHash")
      [] name = "chainSpec_v1_properties" -> respond(request, "chainSpec_v1_properties")
      [] name = "system_chain" -> respond(request, "system_chain")
      [] name = "system_localPeerId" -> respond(request, "system_localPeerId")
      [] name = "system_name" -> respond(request, "system_version")
      [] name = "system_properties" -> respond(request, "system_properties")
      [] name = "system_version" -> respond(request, "system_version")
      [] OTHER -> fail(request, InternalError)

\* spawn_requests_handler, the arms of `match request.request()` of a
\* Message::Request that answer without awaiting: the reply, named by the
\* methods::Response variant it carries (system_name answers with
\* Response::system_version), or the failure of the `_` arm.
\* chain_properties_json is JSON-encoded, so serde_json::from_str returns Ok.
handle_request(request) ==
    LET name == request.request.name IN
    CASE name = "rpc_methods" -> respond(request, "rpc_methods")
      [] name = "chainSpec_v1_chainName" -> respond(request, "chainSpec_v1_chainName")
      [] name = "chainSpec_v1_genesisHash" -> respond(request, "chainSpec_v1_genesisHash")
      [] name = "chainSpec_v1_properties" -> respond(request, "chainSpec_v1_properties")
      [] name = "system_chain" -> respond(request, "system_chain")
      [] name = "system_localPeerId" -> respond(request, "system_localPeerId")
      [] name = "system_name" -> respond(request, "system_version")
      [] name = "system_properties" -> respond(request, "system_properties")
      [] name = "system_version" -> respond(request, "system_version")
      [] OTHER -> fail(request, ServerErrorNotImplemented)

\* DatabaseThread::with_database with the closure of the chain_getBlockHash
\* arm: best_block_hash_by_number(height) gives Ok(Some), Ok(None) or Err,
\* best_block_hash().map(Some) gives Ok(Some) or Err.
database_outcomes(height) ==
    IF is_some(height)
    THEN { <<"Ok", Some("hash")>>, <<"Ok", None>>, <<"Err", "database_error">> }
    ELSE { <<"Ok", Some("hash")>>, <<"Err", "database_error">> }

\* spawn_requests_handler, `match outcome` of the chain_getBlockHash arm.
chain_getBlockHash_reply(request, outcome) ==
    IF outcome[1] = "Ok" /\ is_some(outcome[2])
    THEN respond(request, "chain_getBlockHash")
    ELSE IF outcome[1] = "Ok" THEN respond_null(request)
    ELSE fail(request, InternalError)

\* The SCALE-encoded headers next_scale_encoded_header can return: the n-th
\* header of a stream, well-formed or not.
EncodedHeaders(n) == { [number |-> n, well_formed |-> b] : b \in BOOLEAN }

\* methods::Header::from_scale_encoded_header: Some(header) for Ok, None for Err.
from_scale_encoded_header(scale_encoded_header) ==
    IF scale_encoded_header.well_formed
    THEN Some([number |-> scale_encoded_header.number])
    ELSE None

\* methods::ServerToClient::chain_allHead { subscription, result }
chain_allHead(subscription, result_header) ==
    [method |-> "chain_allHead", subscription |-> subscription, result |-> result_header]

\* The task spawned for a chain_subscribeAllHeads request, before its first
\* poll: it holds the request and blocks_to_report, of which `stream` is what
\* the consensus service has produced for it and `read` how much of it
\* next_scale_encoded_header has returned. `accepted` counts the calls of
\* request.accept(), `sent` lists the notifications the task has sent.
new_subscription_task(request) ==
    [ request |-> request, pc |-> "accept", accepted |-> 0,
      subscription_id |-> None, stream |-> <<>>, read |-> 0,
      json_rpc_header |-> None, sent |-> <<>> ]

\* subscription_after_header with `break` in place of `continue`.
subscription_after_header_break(task, scale_encoded_header) ==
    LET decoded == from_scale_encoded_header(scale_encoded_header) IN
    IF is_some(decoded)
    THEN [task EXCEPT !.read = @ + 1, !.pc = "send_notification",
                      !.json_rpc_header = decoded]
    ELSE [task EXCEPT !.read = @ + 1, !.pc = "ended"]

\* The subscription task from the return of next_scale_encoded_header to its
\* next await: Ok(h) goes on to send_notification, Err(_) continues the loop.
subscription_after_header(task, scale_encoded_header) ==
    LET decoded == from_scale_encoded_header(scale_encoded_header) IN
    IF is_some(decoded)
    THEN [task EXCEPT !.read = @ + 1, !.pc = "send_notification",
                      !.json_rpc_header = decoded]
    ELSE [task EXCEPT !.read = @ + 1]

\* The JSON-RPC service sends a Message on the channel.
SendMessage ==
    /\ ~closed
    /\ Len(taken) + Len(channel) < MaxMessages
    /\ \E m \in Messages(Len(taken) + Len(channel) + 1) :
           channel' = Append(channel, m)
    /\ UNCHANGED <<closed, main_task, taken, replies, subscriptions>>
    /\ UNCHANGED chain_vars

\* The sending side of the channel is dropped.
CloseChannel ==
    /\ ~closed
    /\ closed' = TRUE
    /\ UNCHANGED <<channel, main_task, taken, replies, subscriptions>>
    /\ UNCHANGED chain_vars

\* config.receiver.next().await returns Some(Message::Request(request)): the
\* request is answered at once, or chain_getBlockHash starts to await the
\* database.
ReceiveRequest ==
    /\ main_task.pc = "receive"
    /\ channel # <<>>
    /\ Head(channel).kind = "Request"
    /\ LET request == Head(channel) IN
       /\ channel' = Tail(channel)
       /\ taken' = Append(taken, request)
       /\ IF request.request.name = "chain_getBlockHash"
          THEN /\ main_task' = [pc |-> "database", request |-> Some(request)]
               /\ UNCHANGED replies
          ELSE /\ replies' = Append(replies, handle_request(request))
               /\ UNCHANGED main_task
    /\ UNCHANGED <<closed, subscriptions>>
    /\ UNCHANGED chain_vars

\* with_database(..).await returns in the chain_getBlockHash arm.
DatabaseReturns ==
    /\ main_task.pc = "database"
    /\ LET request == unwrap(main_task.request) IN
       \E outcome \in database_outcomes(request.request.height) :
           replies' = Append(replies, chain_getBlockHash_reply(request, outcome))
    /\ main_task' = [pc |-> "receive", request |-> None]
    /\ UNCHANGED <<channel, closed, taken, subscriptions>>
    /\ UNCHANGED chain_vars

\* config.receiver.next().await returns Some(Message::SubscriptionStart(request)):
\* chain_subscribeAllHeads gets a task from config.tasks_executor, anything else
\* is failed.
ReceiveSubscriptionStart ==
    /\ main_task.pc = "receive"
    /\ channel # <<>>
    /\ Head(channel).kind = "SubscriptionStart"
    /\ LET request == Head(channel) IN
       /\ channel' = Tail(channel)
       /\ taken' = Append(taken, request)
       /\ IF request.request.name = "chain_subscribeAllHeads"
          THEN /\ subscriptions' = Append(subscriptions, new_subscription_task(request))
               /\ UNCHANGED replies
          ELSE /\ replies' = Append(replies, fail(request, ServerErrorNotImplemented))
               /\ UNCHANGED subscriptions
    /\ UNCHANGED <<closed, main_task>>
    /\ UNCHANGED chain_vars

\* config.receiver.next().await returns None, which a closed and empty channel
\* does: `None => return`.
ReceiveNone ==
    /\ main_task.pc = "receive"
    /\ channel = <<>>
    /\ closed
    /\ main_task' = [pc |-> "done", request |-> None]
    /\ UNCHANGED <<channel, closed, taken, replies, subscriptions>>
    /\ UNCHANGED chain_vars

\* The headers the consensus service has reported so far, over the first n
\* subscriptions.
RECURSIVE HeadersProduced(_, _)
HeadersProduced(tasks, n) ==
    IF n = 0 THEN 0
    ELSE Len(tasks[n].stream) + HeadersProduced(tasks, n - 1)

\* The consensus service produces one more header for blocks_to_report of
\* subscription task i.
ProduceHeader(i) ==
    /\ HeadersProduced(subscriptions, Len(subscriptions)) < MaxHeaders
    /\ \E h \in EncodedHeaders(Len(subscriptions[i].stream) + 1) :
           subscriptions' = [subscriptions EXCEPT ![i].stream = Append(@, h)]
    /\ UNCHANGED <<channel, closed, main_task, taken, replies>>
    /\ UNCHANGED chain_vars

\* First poll of subscription task i: request.accept() and subscription_id().
SubscriptionAccept(i) ==
    /\ subscriptions[i].pc = "accept"
    /\ subscriptions' =
           [subscriptions EXCEPT
               ![i].pc = "next_header",
               ![i].accepted = @ + 1,
               ![i].subscription_id = Some(subscription_id(subscriptions[i].request))]
    /\ UNCHANGED <<channel, closed, main_task, taken, replies>>
    /\ UNCHANGED chain_vars

\* blocks_to_report.next_scale_encoded_header().await returns in task i, and
\* the header is decoded.
SubscriptionNextHeader(i) ==
    /\ subscriptions[i].pc = "next_header"
    /\ subscriptions[i].read < Len(subscriptions[i].stream)
    /\ subscriptions' =
           [subscriptions EXCEPT
               ![i] = subscription_after_header(@, @.stream[@.read + 1])]
    /\ UNCHANGED <<channel, closed, main_task, taken, replies>>
    /\ UNCHANGED chain_vars

\* subscription.send_notification(chain_allHead { .. }).await in task i.
SubscriptionSendNotification(i) ==
    /\ subscriptions[i].pc = "send_notification"
    /\ subscriptions' =
           [subscriptions EXCEPT
               ![i].pc = "next_header",
               ![i].json_rpc_header = None,
               ![i].sent = Append(@, chain_allHead(unwrap(subscriptions[i].subscription_id),
                                                   unwrap(subscriptions[i].json_rpc_header)))]
    /\ UNCHANGED <<channel, closed, main_task, taken, replies>>
    /\ UNCHANGED chain_vars

\* The handler runs next to a chain information nobody touches.
InitHandler ==
    /\ info = DefaultChainInformation
    /\ epoch = None
    /\ result = None
    /\ epoch_result = None
    /\ valids = {}
    /\ valid_refs = {}
    /\ view = None
    /\ plain = None
    /\ round_trip = None
    /\ InitRequestsHandler

NextHandler ==
    \/ SendMessage
    \/ CloseChannel
    \/ ReceiveRequest
    \/ DatabaseReturns
    \/ ReceiveSubscriptionStart
    \/ ReceiveNone
    \/ \E i \in DOMAIN subscriptions : ProduceHeader(i)
    \/ \E i \in DOMAIN subscriptions : SubscriptionAccept(i)
    \/ \E i \in DOMAIN subscriptions : SubscriptionNextHeader(i)
    \/ \E i \in DOMAIN subscriptions : SubscriptionSendNotification(i)

SpecHandler == InitHandler /\ [][NextHandler]_vars

\* One iteration of the main task's loop, up to its next await.
MainTaskStep ==
    \/ ReceiveRequest
    \/ DatabaseReturns
    \/ ReceiveSubscriptionStart
    \/ ReceiveNone

\* One step of the i-th spawned subscription task, up to its next await.
SubscriptionTaskStep(i) ==
    /\ i \in DOMAIN subscriptions
    /\ \/ SubscriptionAccept(i)
       \/ SubscriptionNextHeader(i)
       \/ SubscriptionSendNotification(i)

\* Config::tasks_executor: "the tasks passed as parameter must be executed
\* until they shut down", so a task that can take a step is not left waiting
\* for ever; the senders and the consensus service are under no obligation.
FairSpecHandler ==
    /\ InitHandler
    /\ [][NextHandler]_vars
    /\ WF_vars(MainTaskStep)
    /\ \A i \in 1..MaxMessages : WF_vars(SubscriptionTaskStep(i))

\* ------------------------------------------------------------------------
\* Properties
\* ------------------------------------------------------------------------

\* A validation call on info has returned.
Checked == is_some(result)

\* What it returned.
Outcome == unwrap(result)

IsBabe == info.consensus.kind = "Babe"

IsAura == info.consensus.kind = "Aura"

IsGrandpa == info.finality.kind = "Grandpa"

Number == info.finalized_block_header.number

\* The digest of the finalized header, as validate sees it.
HeaderDigest == HeaderToRef(info.finalized_block_header).digest

NextEpoch == info.consensus.finalized_next_epoch_transition

CurrentEpoch == info.consensus.finalized_block_epoch_information

ScheduledChange == info.finality.finalized_scheduled_change

SetId == info.finality.after_finalized_block_authorities_set_id

\* c is a fraction <= 1.
CValid(e) == e.c[1] <= e.c[2]

\* The next epoch passes its own rules: valid c, start slot present iff
\* epoch_index != 0.
NextWellFormed ==
    /\ CValid(NextEpoch)
    /\ is_some(NextEpoch.start_slot_number) <=> (NextEpoch.epoch_index # 0)

\* The consensus-engine checks of validate pass on info.
ConsensusPasses == validate_consensus(ChainInformationToRef(info)) = Ok

\* C1: every ValidChainInformation and ValidChainInformationRef that exists
\* wraps a chain information validate accepts, and a rejected input leaves no
\* wrapper behind.
C1_WrappersAreValid ==
    /\ \A v \in valids : validate(ChainInformationToRef(v.inner)) = Ok
    /\ \A r \in valid_refs : validate(r.inner) = Ok
    /\ (Checked /\ Outcome # Ok) => (valids = {} /\ valid_refs = {})

\* C1 witness: both wrappers exist, as_ref and Into have returned.
C1_Witness ==
    /\ valids # {}
    /\ valid_refs # {}
    /\ is_some(view)
    /\ is_some(plain)

\* C2 as claimed: a validated Babe chain information has a header without Aura
\* item, with Babe pre-runtime item and seal when number != 0, with neither
\* when number = 0.
C2_BabeHeaderAgrees ==
    (Checked /\ Outcome = Ok /\ IsBabe) =>
        /\ ~has_any_aura(HeaderDigest)
        /\ (Number # 0) =>
               /\ is_some(babe_pre_runtime(HeaderDigest))
               /\ is_some(babe_seal(HeaderDigest))
        /\ (Number = 0) =>
               /\ is_none(babe_pre_runtime(HeaderDigest))
               /\ is_none(babe_seal(HeaderDigest))

\* C3 as claimed: in a validated Babe chain information, an epoch-change
\* announcement of the header equals the next epoch's authorities and
\* randomness, for every block number.
C3_AnnouncementMatchesNextEpoch ==
    (Checked /\ Outcome = Ok /\ IsBabe
        /\ is_some(babe_epoch_information(HeaderDigest))) =>
        /\ collect(unwrap(babe_epoch_information(HeaderDigest))[1].authorities)
               = NextEpoch.authorities
        /\ unwrap(babe_epoch_information(HeaderDigest))[1].randomness
               = NextEpoch.randomness

\* C4: Babe validation succeeds only if the current-epoch information is
\* present exactly when number != 0; with a well-formed next epoch, a present
\* current epoch with valid c on block 0 gives UnexpectedBabeFinalizedEpoch and
\* an absent one on a block != 0 gives NoBabeFinalizedEpoch.
C4_CurrentEpochPresence ==
    (Checked /\ IsBabe) =>
        /\ (Outcome = Ok) => (is_some(CurrentEpoch) <=> (Number # 0))
        /\ ( /\ NextWellFormed
             /\ is_some(CurrentEpoch)
             /\ CValid(unwrap(CurrentEpoch))
             /\ Number = 0 )
               => Outcome = "UnexpectedBabeFinalizedEpoch"
        /\ (NextWellFormed /\ is_none(CurrentEpoch) /\ Number # 0)
               => Outcome = "NoBabeFinalizedEpoch"

\* C4 witness: a current epoch on genesis was rejected.
C4_Witness ==
    /\ Checked
    /\ IsBabe
    /\ is_some(CurrentEpoch)
    /\ Number = 0
    /\ Outcome = "UnexpectedBabeFinalizedEpoch"

\* C5: Babe validation succeeds only if the next epoch's start slot is present
\* exactly when its epoch_index != 0; with a valid next c, the two violations
\* give UnexpectedBabeSlotStartNumber and MissingBabeSlotStartNumber whatever
\* the rest of the input is.
C5_NextEpochStartSlot ==
    (Checked /\ IsBabe) =>
        /\ (Outcome = Ok) =>
               (is_some(NextEpoch.start_slot_number) <=> (NextEpoch.epoch_index # 0))
        /\ ( /\ CValid(NextEpoch)
             /\ is_some(NextEpoch.start_slot_number)
             /\ NextEpoch.epoch_index = 0 )
               => Outcome = "UnexpectedBabeSlotStartNumber"
        /\ ( /\ CValid(NextEpoch)
             /\ is_none(NextEpoch.start_slot_number)
             /\ NextEpoch.epoch_index # 0 )
               => Outcome = "MissingBabeSlotStartNumber"

\* C5 witness: a start slot on the future epoch 0 was rejected although the
\* current epoch and the Grandpa part are broken too.
C5_Witness ==
    /\ Checked
    /\ IsBabe
    /\ NextEpoch.epoch_index = 0
    /\ is_some(NextEpoch.start_slot_number)
    /\ is_some(CurrentEpoch)
    /\ ~CValid(unwrap(CurrentEpoch))
    /\ IsGrandpa
    /\ Number = 0
    /\ SetId # 0
    /\ Outcome = "UnexpectedBabeSlotStartNumber"

\* The rules validate checks before the header slot pass: well-formed next
\* epoch, current epoch present with valid c and a start slot, number != 0.
RulesBeforeHeaderSlotPass ==
    /\ NextWellFormed
    /\ is_some(CurrentEpoch)
    /\ CValid(unwrap(CurrentEpoch))
    /\ Number # 0
    /\ is_some(unwrap(CurrentEpoch).start_slot_number)

\* C6: in a validated Babe chain information with current-epoch information,
\* a Babe pre-runtime slot of the header is >= the epoch's start slot; when the
\* earlier rules pass, a slot below the start is rejected with
\* HeaderBabeSlotInferiorToEpochStartSlot and a slot equal to it is not.
C6_HeaderSlotNotBeforeEpochStart ==
    (Checked /\ IsBabe /\ is_some(babe_pre_runtime(HeaderDigest))) =>
        LET slot == slot_number(unwrap(babe_pre_runtime(HeaderDigest))) IN
        /\ (Outcome = Ok /\ is_some(CurrentEpoch)) =>
               /\ is_some(unwrap(CurrentEpoch).start_slot_number)
               /\ slot >= unwrap(unwrap(CurrentEpoch).start_slot_number)
        /\ ( /\ RulesBeforeHeaderSlotPass
             /\ slot < unwrap(unwrap(CurrentEpoch).start_slot_number) )
               => Outcome = "HeaderBabeSlotInferiorToEpochStartSlot"
        /\ ( /\ RulesBeforeHeaderSlotPass
             /\ slot = unwrap(unwrap(CurrentEpoch).start_slot_number) )
               => Outcome # "HeaderBabeSlotInferiorToEpochStartSlot"

\* C6 witness: a header whose slot equals a non-zero epoch start slot passed.
C6_Witness ==
    /\ Checked
    /\ IsBabe
    /\ Outcome = Ok
    /\ is_some(CurrentEpoch)
    /\ is_some(babe_pre_runtime(HeaderDigest))
    /\ unwrap(CurrentEpoch).start_slot_number
           = Some(slot_number(unwrap(babe_pre_runtime(HeaderDigest))))
    /\ slot_number(unwrap(babe_pre_runtime(HeaderDigest))) > 0

\* The three conditions validate puts on the header of an Aura chain.
AuraHeaderAgrees ==
    /\ is_some(aura_pre_runtime(HeaderDigest)) <=> (Number # 0)
    /\ is_some(aura_seal(HeaderDigest)) <=> (Number # 0)
    /\ ~has_any_babe(HeaderDigest)

\* C7: Aura validation succeeds only if pre-runtime presence and seal presence
\* both equal (number != 0) and the header has no Babe item; any violation
\* gives ConsensusAlgorithmMismatch.
C7_AuraHeaderRule ==
    (Checked /\ IsAura) =>
        /\ (Outcome = Ok) => AuraHeaderAgrees
        /\ (~AuraHeaderAgrees) => Outcome = "ConsensusAlgorithmMismatch"

\* C7 witness: a genesis header with an Aura seal and nothing else was rejected,
\* with a Grandpa part that is broken too.
C7_Witness ==
    /\ Checked
    /\ IsAura
    /\ Number = 0
    /\ is_some(aura_seal(HeaderDigest))
    /\ is_none(aura_pre_runtime(HeaderDigest))
    /\ ~has_any_babe(HeaderDigest)
    /\ IsGrandpa
    /\ SetId # 0
    /\ Outcome = "ConsensusAlgorithmMismatch"

\* C8: with a Grandpa scheduled change, validation never succeeds when the
\* trigger height is <= the finalized number; when the consensus checks pass
\* the error is ScheduledGrandPaChangeBeforeFinalized; a trigger height of
\* number + 1 or more never gives this error.
C8_ScheduledChangeAfterFinalized ==
    (Checked /\ IsGrandpa /\ is_some(ScheduledChange)) =>
        LET trigger == unwrap(ScheduledChange)[1] IN
        /\ (trigger <= Number) => Outcome # Ok
        /\ (ConsensusPasses /\ trigger <= Number)
               => Outcome = "ScheduledGrandPaChangeBeforeFinalized"
        /\ (trigger >= Number + 1)
               => Outcome # "ScheduledGrandPaChangeBeforeFinalized"

\* C8 witness: a change scheduled at the finalized height itself (a block
\* after genesis) was rejected.
C8_Witness ==
    /\ Checked
    /\ IsGrandpa
    /\ is_some(ScheduledChange)
    /\ Number # 0
    /\ unwrap(ScheduledChange)[1] = Number
    /\ Outcome = "ScheduledGrandPaChangeBeforeFinalized"

\* C9: with Grandpa, validation never succeeds on block 0 with a set id != 0;
\* when the consensus checks pass and no change is scheduled at height 0 the
\* error is FinalizedZeroButNonZeroAuthoritiesSetId; on a block != 0 no set id
\* gives this error.
C9_GenesisSetId ==
    (Checked /\ IsGrandpa) =>
        /\ (Number = 0 /\ SetId # 0) => Outcome # Ok
        /\ ( /\ ConsensusPasses
             /\ Number = 0
             /\ SetId # 0
             /\ ~(is_some(ScheduledChange) /\ unwrap(ScheduledChange)[1] <= 0) )
               => Outcome = "FinalizedZeroButNonZeroAuthoritiesSetId"
        /\ (Number # 0) => Outcome # "FinalizedZeroButNonZeroAuthoritiesSetId"

\* C9 witness: genesis with set id 1 and a change scheduled later was rejected.
C9_Witness ==
    /\ Checked
    /\ IsGrandpa
    /\ Number = 0
    /\ SetId # 0
    /\ is_some(ScheduledChange)
    /\ Outcome = "FinalizedZeroButNonZeroAuthoritiesSetId"

\* BabeEpochInformation::validate returns InvalidConstant exactly when
\* c.0 > c.1 (both parts of C10 start with this).
EpochValidateExact ==
    is_some(epoch_result) =>
        /\ unwrap(epoch_result) \in {Ok, InvalidConstant}
        /\ (unwrap(epoch_result) = InvalidConstant) <=> ~CValid(unwrap(epoch))

\* C10 as claimed: BabeEpochInformation::validate fails exactly when
\* c.0 > c.1, and validate on a Babe chain information whose next epoch or
\* present current epoch has c.0 > c.1 returns InvalidBabe(InvalidConstant).
C10_InvalidConstantAlways ==
    /\ EpochValidateExact
    /\ ( /\ Checked
         /\ IsBabe
         /\ \/ ~CValid(NextEpoch)
            \/ (is_some(CurrentEpoch) /\ ~CValid(unwrap(CurrentEpoch))) )
           => Outcome = InvalidBabe(InvalidConstant)

\* C10 amended: BabeEpochInformation::validate fails exactly when c.0 > c.1;
\* validate on a Babe chain information returns InvalidBabe(InvalidConstant)
\* when the next epoch has c.0 > c.1, and when the present current epoch has
\* c.0 > c.1 and the next epoch is well-formed; a bad c of the current epoch
\* behind a next epoch that breaks the start-slot rule gives that rule's error.
C10_InvalidConstantInOrder ==
    /\ EpochValidateExact
    /\ (Checked /\ IsBabe) =>
           /\ (~CValid(NextEpoch)) => Outcome = InvalidBabe(InvalidConstant)
           /\ ( /\ NextWellFormed
                /\ is_some(CurrentEpoch)
                /\ ~CValid(unwrap(CurrentEpoch)) )
                  => Outcome = InvalidBabe(InvalidConstant)
           /\ ( /\ CValid(NextEpoch)
                /\ ~NextWellFormed
                /\ is_some(CurrentEpoch)
                /\ ~CValid(unwrap(CurrentEpoch)) )
                  => Outcome \in { "UnexpectedBabeSlotStartNumber",
                                   "MissingBabeSlotStartNumber" }

\* C10 witness: a current epoch with c.0 > c.1 behind a well-formed next epoch
\* was rejected with InvalidBabe(InvalidConstant).
C10_Witness ==
    /\ Checked
    /\ IsBabe
    /\ NextWellFormed
    /\ is_some(CurrentEpoch)
    /\ ~CValid(unwrap(CurrentEpoch))
    /\ Outcome = InvalidBabe(InvalidConstant)

\* The two Grandpa rules hold on info: a scheduled change triggers after the
\* finalized block, and the set id is 0 on block 0.
GrandpaRulesHold ==
    /\ is_some(ScheduledChange) => unwrap(ScheduledChange)[1] > Number
    /\ (Number = 0) => (SetId = 0)

C12_EpochIndicesConsecutive ==
    (Checked /\ Outcome = Ok /\ IsBabe /\ is_some(CurrentEpoch)) =>
        NextEpoch.epoch_index = unwrap(CurrentEpoch).epoch_index + 1

\* The first violated rule of a list of <<violated, error>> pairs, Ok when no
\* rule is violated.
RECURSIVE FirstViolated(_)
FirstViolated(rules) ==
    IF rules = <<>> THEN Ok
    ELSE IF Head(rules)[1] THEN Head(rules)[2]
    ELSE FirstViolated(Tail(rules))

\* The consensus rules in the order validate is said to check them, each with
\* the condition under which it is violated on info and its error.
ReferenceConsensusRules ==
    IF IsBabe THEN
        LET has_cur == is_some(CurrentEpoch)
            pre == babe_pre_runtime(HeaderDigest)
            announcement == babe_epoch_information(HeaderDigest)
        IN
        << <<~CValid(NextEpoch), InvalidBabe(InvalidConstant)>>,
           << is_some(NextEpoch.start_slot_number) /\ NextEpoch.epoch_index = 0,
              "UnexpectedBabeSlotStartNumber" >>,
           << is_none(NextEpoch.start_slot_number) /\ NextEpoch.epoch_index # 0,
              "MissingBabeSlotStartNumber" >>,
           << has_cur /\ ~CValid(unwrap(CurrentEpoch)),
              InvalidBabe(InvalidConstant) >>,
           << has_cur /\ Number = 0, "UnexpectedBabeFinalizedEpoch" >>,
           << has_cur /\ is_none(unwrap(CurrentEpoch).start_slot_number),
              "MissingBabeSlotStartNumber" >>,
           << has_cur /\ is_none(pre), "ConsensusAlgorithmMismatch" >>,
           << /\ has_cur
              /\ is_some(pre)
              /\ is_some(unwrap(CurrentEpoch).start_slot_number)
              /\ slot_number(unwrap(pre))
                     < unwrap(unwrap(CurrentEpoch).start_slot_number),
              "HeaderBabeSlotInferiorToEpochStartSlot" >>,
           << has_cur /\ (is_none(babe_seal(HeaderDigest)) \/ has_any_aura(HeaderDigest)),
              "ConsensusAlgorithmMismatch" >>,
           << /\ has_cur
              /\ is_some(announcement)
              /\ \/ collect(unwrap(announcement)[1].authorities) # NextEpoch.authorities
                 \/ unwrap(announcement)[1].randomness # NextEpoch.randomness,
              "BabeEpochInfoMismatch" >>,
           << ~has_cur /\ Number # 0, "NoBabeFinalizedEpoch" >> >>
    ELSE IF IsAura THEN
        << <<~AuraHeaderAgrees, "ConsensusAlgorithmMismatch">> >>
    ELSE <<>>

\* The two Grandpa rules in the order validate is said to check them.
ReferenceGrandpaRules ==
    IF IsGrandpa THEN
        << << is_some(ScheduledChange) /\ unwrap(ScheduledChange)[1] <= Number,
              "ScheduledGrandPaChangeBeforeFinalized" >>,
           << Number = 0 /\ SetId # 0,
              "FinalizedZeroButNonZeroAuthoritiesSetId" >> >>
    ELSE <<>>

\* C13: validate returns the error of the first violated rule in the order
\* next-epoch c, next-epoch start slot, then with a current epoch its c,
\* number != 0, its start slot, header pre-runtime item and slot, seal and no
\* Aura item, announcement equality, else number = 0, or the Aura header rule,
\* then the scheduled-change height, then the genesis set id; so a consensus
\* error wins over a Grandpa error and the scheduled-change error over the
\* set-id error.
C13_FirstViolatedRule ==
    Checked =>
        Outcome = FirstViolated(ReferenceConsensusRules \o ReferenceGrandpaRules)

\* C13 witness: an input breaking a consensus rule and both Grandpa rules got
\* the consensus error.
C13_Witness ==
    /\ Checked
    /\ IsAura
    /\ ~AuraHeaderAgrees
    /\ IsGrandpa
    /\ Number = 0
    /\ SetId # 0
    /\ is_some(ScheduledChange)
    /\ unwrap(ScheduledChange)[1] <= Number
    /\ Outcome = "ConsensusAlgorithmMismatch"

IsUnknown == info.consensus.kind = "Unknown"

\* C14: with Unknown consensus and Outsourced finality validation succeeds
\* whatever the header holds; with Unknown consensus and Grandpa finality the
\* result is decided by the two Grandpa rules alone; with Outsourced finality
\* the result is decided by the consensus rules alone.
C14_UnknownAndOutsourced ==
    Checked =>
        /\ (IsUnknown /\ ~IsGrandpa) => Outcome = Ok
        /\ (IsUnknown /\ IsGrandpa) => Outcome = FirstViolated(ReferenceGrandpaRules)
        /\ (~IsGrandpa) => Outcome = FirstViolated(ReferenceConsensusRules)

\* C14 witness: Unknown consensus with Outsourced finality passed on block 0
\* with a header carrying an Aura seal and a Babe pre-runtime item.
C14_Witness ==
    /\ Checked
    /\ IsUnknown
    /\ ~IsGrandpa
    /\ Number = 0
    /\ is_some(aura_seal(HeaderDigest))
    /\ is_some(babe_pre_runtime(HeaderDigest))
    /\ Outcome = Ok

\* C16: a chain information converted to its view and back equals the
\* original, field by field, authority lists in the same order.
C16_RoundTrip ==
    is_some(round_trip) => unwrap(round_trip) = info

\* C16 witness: the round trip of a Babe chain with a current epoch and a
\* Grandpa scheduled change, whose header announces an epoch change.
C16_Witness ==
    /\ is_some(round_trip)
    /\ IsBabe
    /\ is_some(CurrentEpoch)
    /\ IsGrandpa
    /\ is_some(ScheduledChange)
    /\ is_some(babe_epoch_information(HeaderDigest))
    /\ Len(NextEpoch.authorities) > 1

\* C17: every wrapper, and every view or chain information obtained from a
\* wrapper, holds exactly the input that was validated; a failed validation
\* leaves an error and no wrapper, view or chain information; the wrappers
\* exist only with the Ok of the one validation call.
C17_ValidationKeepsValue ==
    /\ \A v \in valids : v.inner = info
    /\ \A r \in valid_refs : r.inner = ChainInformationToRef(info)
    /\ is_some(view) => unwrap(view) = ChainInformationToRef(info)
    /\ is_some(plain) => unwrap(plain) = info
    /\ (Checked /\ Outcome # Ok) =>
           (valids = {} /\ valid_refs = {} /\ view = None /\ plain = None)
    /\ (valids # {} \/ valid_refs # {} \/ is_some(view) \/ is_some(plain)) =>
           (Checked /\ Outcome = Ok)

\* C17 witness: a Grandpa chain with a scheduled change went through the owned
\* wrapper, its view and back into a chain information.
C17_Witness ==
    /\ valids # {}
    /\ valid_refs # {}
    /\ is_some(view)
    /\ is_some(plain)
    /\ IsGrandpa
    /\ is_some(ScheduledChange)

\* C18: a Babe chain information whose current epoch has no start slot never
\* validates, whatever the epoch's index; when the next epoch is well-formed,
\* the current epoch's c is valid and number != 0, the error is
\* MissingBabeSlotStartNumber whatever the header digest holds.
C18_CurrentEpochNeedsStartSlot ==
    ( /\ Checked
      /\ IsBabe
      /\ is_some(CurrentEpoch)
      /\ is_none(unwrap(CurrentEpoch).start_slot_number) ) =>
        /\ Outcome # Ok
        /\ (NextWellFormed /\ CValid(unwrap(CurrentEpoch)) /\ Number # 0)
               => Outcome = "MissingBabeSlotStartNumber"

\* C18 witness: a current epoch 0 without start slot was rejected on a block
\* after genesis whose header carries a Babe pre-runtime item and a seal.
C18_Witness ==
    /\ Checked
    /\ IsBabe
    /\ is_some(CurrentEpoch)
    /\ unwrap(CurrentEpoch).epoch_index = 0
    /\ is_none(unwrap(CurrentEpoch).start_slot_number)
    /\ Number # 0
    /\ is_some(babe_pre_runtime(HeaderDigest))
    /\ is_some(babe_seal(HeaderDigest))
    /\ Outcome = "MissingBabeSlotStartNumber"

\* ------------------------------------------------------------------------
\* Properties of the requests handler
\* ------------------------------------------------------------------------

\* The request methods with an arm of their own in spawn_requests_handler.
DedicatedRequestArms ==
    { "rpc_methods", "chainSpec_v1_chainName", "chainSpec_v1_genesisHash",
      "chainSpec_v1_properties", "chain_getBlockHash", "system_chain",
      "system_localPeerId", "system_name", "system_properties", "system_version" }

\* The message has an arm of its own.
HasDedicatedArm(m) ==
    IF m.kind = "Request" THEN m.request.name \in DedicatedRequestArms
    ELSE m.request.name = "chain_subscribeAllHeads"

\* The message starts a chain_subscribeAllHeads subscription.
StartsAllHeads(m) ==
    m.kind = "SubscriptionStart" /\ m.request.name = "chain_subscribeAllHeads"

NotStartsAllHeads(m) == ~StartsAllHeads(m)

\* The ids of a sequence of messages, replies or tasks' requests, in order.
Ids(seq) == [i \in DOMAIN seq |-> seq[i].id]

\* The messages taken so far whose handling is complete: all of them, but the
\* last one while the main task awaits the database for it.
Handled ==
    IF main_task.pc = "database" THEN SubSeq(taken, 1, Len(taken) - 1) ELSE taken

\* What the main task has done so far is in order: the messages it has
\* finished handling, other than chain_subscribeAllHeads starts, have exactly
\* one reply each (respond, respond_null or fail), the replies in the order the
\* messages were taken and none for a message still in the channel; every
\* chain_subscribeAllHeads start has exactly one task, which calls accept at
\* most once and has called it once it is past its first step, and no
\* failure; a message without an arm of its own is failed with
\* ServerError(-32000, "Not implemented in smoldot yet"); the main task is
\* done only when the channel is closed and empty.
EveryMessageAnsweredOnce ==
    /\ Ids(replies) = Ids(SelectSeq(Handled, NotStartsAllHeads))
    /\ \A i \in DOMAIN replies :
           /\ replies[i].kind \in {"respond", "respond_null", "fail"}
           /\ \A j \in DOMAIN taken :
                  (taken[j].id = replies[i].id /\ ~HasDedicatedArm(taken[j])) =>
                      /\ replies[i].kind = "fail"
                      /\ replies[i].payload.variant = "ServerError"
                      /\ replies[i].payload.code = -32000
                      /\ replies[i].payload.message = "Not implemented in smoldot yet"
    /\ [i \in DOMAIN subscriptions |-> subscriptions[i].request.id]
           = Ids(SelectSeq(taken, StartsAllHeads))
    /\ \A i \in DOMAIN subscriptions :
           /\ subscriptions[i].accepted <= 1
           /\ (subscriptions[i].accepted = 1) <=> (subscriptions[i].pc # "accept")
    /\ (main_task.pc = "done") => (closed /\ channel = <<>>)
    /\ (main_task.pc = "database") =>
           (taken # <<>> /\ main_task.request = Some(taken[Len(taken)]))

\* The main task has taken every message sent so far and finished handling it.
AllMessagesHandled ==
    /\ channel = <<>>
    /\ Handled = taken

\* C19: every message taken is answered exactly once before the next one is
\* taken, replies in the order of the requests; every subscription start is
\* accepted (chain_subscribeAllHeads) or failed, exactly once; a method
\* without an arm of its own is failed with ServerError(-32000, "Not
\* implemented in smoldot yet") and the messages behind it are served all the
\* same: again and again the main task has handled every message sent so far;
\* the main task stops only when the channel is closed.
C19_EveryMessageAnsweredOnce ==
    []EveryMessageAnsweredOnce /\ []<>AllMessagesHandled

\* C19 witness: a request without an arm was failed with the server error, the
\* chain_getBlockHash request behind it was answered with null, and the main
\* task returned after the channel was closed.
C19_Witness ==
    /\ Len(replies) = 2
    /\ taken[1].request.name = "chain_getHeader"
    /\ replies[1] = fail(taken[1], ServerErrorNotImplemented)
    /\ taken[2].request.name = "chain_getBlockHash"
    /\ replies[2].kind = "respond_null"
    /\ main_task.pc = "done"

\* The notifications a subscription with the given id owes for a sequence of
\* SCALE-encoded headers: one chain_allHead per well-formed header, in order.
RECURSIVE NotificationsOwed(_, _)
NotificationsOwed(id, headers) ==
    IF headers = <<>> THEN <<>>
    ELSE IF Head(headers).well_formed
         THEN << [ method |-> "chain_allHead", subscription |-> id,
                   result |-> [number |-> Head(headers).number] ] >>
                  \o NotificationsOwed(id, Tail(headers))
    ELSE NotificationsOwed(id, Tail(headers))

\* Every subscription task is alive (never ended) whatever the main task
\* does; the notifications it has sent are exactly one chain_allHead with its
\* own subscription id per well-formed header it has read, in the order of the
\* headers, the last one possibly still to be sent; headers that fail to
\* decode add nothing.
SubscriptionNotifies ==
    \A i \in DOMAIN subscriptions :
        LET task == subscriptions[i]
            owed == NotificationsOwed(task.request.id, SubSeq(task.stream, 1, task.read))
        IN
        /\ task.pc \in {"accept", "next_header", "send_notification"}
        /\ task.read <= Len(task.stream)
        /\ (task.pc = "accept") => (task.read = 0 /\ task.sent = <<>>)
        /\ (task.pc = "next_header") => task.sent = owed
        /\ (task.pc = "send_notification") =>
               /\ owed # <<>>
               /\ task.sent = SubSeq(owed, 1, Len(owed) - 1)
               /\ task.json_rpc_header = Some(owed[Len(owed)].result)
        /\ \A j \in DOMAIN subscriptions :
               (j # i) => task.request.id # subscriptions[j].request.id

\* Every subscription has sent a notification for every well-formed header
\* produced for it so far.
AllHeadersNotified ==
    \A i \in DOMAIN subscriptions :
        /\ subscriptions[i].read = Len(subscriptions[i].stream)
        /\ subscriptions[i].sent
               = NotificationsOwed(subscriptions[i].request.id, subscriptions[i].stream)

\* C20: subscriptions run in tasks of their own, so with subscriptions alive
\* the main task still empties the channel; each subscription sends exactly
\* one chain_allHead with its own id per header that decodes, in the order of
\* the headers, and again and again has notified every such header produced
\* so far; a header that fails to decode gives no notification and does not
\* end the subscription.
C20_SubscriptionNotifies ==
    /\ []SubscriptionNotifies
    /\ []<>AllHeadersNotified
    /\ (subscriptions # <<>> /\ channel # <<>>) ~> AllMessagesHandled

\* C20 witness: a subscription skipped a header that failed to decode, sent a
\* notification for the next one and waits for more, while the main task
\* answered a request that arrived after the subscription started.
C20_Witness ==
    /\ Len(subscriptions) = 1
    /\ subscriptions[1].pc = "next_header"
    /\ subscriptions[1].read = 2
    /\ ~subscriptions[1].stream[1].well_formed
    /\ Len(subscriptions[1].sent) = 1
    /\ Len(taken) = 2
    /\ taken[2].kind = "Request"
    /\ Len(replies) = 1
    /\ replies[1].id = taken[2].id

====
